---- MODULE Spec2Model ----
(***************************************************************************)
(* Entity extraction for legal documents: extract_entities (src/src/ner.py)*)
(* and extract_all_entities (src/src/combined_ner.py).                     *)
(*                                                                         *)
(* A text is a sequence of one-character strings.  Character offsets are   *)
(* 0-based and spans are half-open, as in Python: the span (s, e) covers   *)
(* text[s+1] .. text[e] of the TLA+ sequence.                              *)
(*                                                                         *)
(* The dictionaries the code appends carry only "entity" and "type".  The  *)
(* model's entity records carry two more fields, span and src, that record *)
(* where the entity was matched and which source produced it; Output       *)
(* strips them, and nothing in the modelled code reads them.               *)
(***************************************************************************)
EXTENDS Integers, Sequences, FiniteSets, TLC

\* Bounds on the recognizers' answers per document.
MaxEnts == 2
MaxCustomEnts == 1

Frames == {1, 2}

----------------------------------------------------------------------------
(* Characters, texts and the vocabulary                                    *)

Lower(c) ==
    CASE c = "A" -> "a"
      [] c = "T" -> "t"
      [] c = "W" -> "w"
      [] OTHER -> c

\* \w of the regular expression, over the characters the texts use.
IsWordChar(c) == c \notin {" ", "-", ",", "."}

legal_terms ==
    << <<"t","r","u","s","t","e","e">>,
       <<"b","e","n","e","f","i","c","i","a","r","y">>,
       <<"e","x","e","c","u","t","o","r">>,
       <<"g","r","a","n","t","o","r">>,
       <<"t","e","s","t","a","t","o","r">>,
       <<"s","e","t","t","l","o","r">>,
       <<"f","i","d","u","c","i","a","r","y">>,
       <<"h","e","i","r">>,
       <<"l","e","g","a","t","e","e">>,
       <<"p","r","o","b","a","t","e">>,
       <<"b","e","q","u","e","s","t">>,
       <<"d","e","v","i","s","e">>,
       <<"l","e","g","a","c","y">>,
       <<"w","i","l","l">>,
       <<"t","r","u","s","t">>,
       <<"e","s","t","a","t","e">>,
       <<"p","o","w","e","r"," ","o","f"," ","a","t","t","o","r","n","e","y">> >>

EmptyText == << >>
TextTrustee == <<"t","r","u","s","t","e","e">>
TextTrustWill == <<"t","r","u","s","t"," ","w","i","l","l">>
TextAnnTrust == <<"A","n","n","-","T","r","u","s","t">>
TextTrusts == <<"t","r","u","s","t","s">>
TextPowerOfAttorney == <<"p","o","w","e","r"," ","o","f"," ","a","t","t","o","r","n","e","y">>

Texts == {EmptyText, TextTrustee, TextTrustWill, TextAnnTrust, TextTrusts,
          TextPowerOfAttorney}

\* text[s:e] of Python for offsets s, e >= 0: an offset past the end is
\* clipped to the end, and an empty string results when the clipped start is
\* not below the clipped end.
Slice(text, s, e) ==
    LET n == Len(text)
        lo == IF s > n THEN n ELSE s
        hi == IF e > n THEN n ELSE e
    IN  IF lo < hi THEN SubSeq(text, lo + 1, hi) ELSE << >>

----------------------------------------------------------------------------
(* re.compile(r'\b' + term + r'\b', re.IGNORECASE).finditer(text)          *)

\* \b at offset p: exactly one of the characters around p is a word
\* character; beyond either end of the text counts as a non-word character.
IsWordBoundaryInner(text, p) ==
    /\ p >= 1
    /\ p < Len(text)
    /\ IsWordChar(text[p]) # IsWordChar(text[p + 1])

IsWordBoundaryAlways(text, p) == TRUE

IsWordBoundary(text, p) ==
    LET before == p >= 1 /\ IsWordChar(text[p])
        after == p < Len(text) /\ IsWordChar(text[p + 1])
    IN  before # after

MatchAt(term, text, p) ==
    /\ p + Len(term) <= Len(text)
    /\ IsWordBoundary(text, p)
    /\ \A j \in 1..Len(term) : Lower(text[p + j]) = Lower(term[j])
    /\ IsWordBoundary(text, p + Len(term))

RECURSIVE ScanFrom(_, _, _)
ScanFrom(term, text, p) ==
    IF p + Len(term) > Len(text) THEN << >>
    ELSE IF MatchAt(term, text, p)
         THEN <<[start |-> p, end |-> p + Len(term)]>>
                  \o ScanFrom(term, text, p + Len(term))
         ELSE ScanFrom(term, text, p + 1)

FindIter(term, text) == ScanFrom(term, text, 0)

\* The matches in the order the nested loops of lines 62-64 visit them:
\* vocabulary order first, position order within a term.
RECURSIVE MatchesFrom(_, _)
MatchesFrom(text, t) ==
    IF t > Len(legal_terms) THEN << >>
    ELSE FindIter(legal_terms[t], text) \o MatchesFrom(text, t + 1)

LexMatches(text) == MatchesFrom(text, 1)

----------------------------------------------------------------------------
(* The recognizers' answers: doc.ents of a spaCy pipeline                  *)

\* Tokens: a maximal run of word characters, or one punctuation character;
\* blanks separate tokens and belong to none.
TokenStarts(text) ==
    {p \in 0..(Len(text) - 1) :
        /\ text[p + 1] # " "
        /\ \/ p = 0
           \/ ~(IsWordChar(text[p]) /\ IsWordChar(text[p + 1]))}

TokenEnds(text) ==
    {e \in 1..Len(text) :
        /\ text[e] # " "
        /\ \/ e = Len(text)
           \/ ~(IsWordChar(text[e]) /\ IsWordChar(text[e + 1]))}

StatLabels == {"PERSON", "DATE", "MONEY", "ORG"}

\* The custom model is en_core_web_lg with four labels added, so it can
\* still answer with a label of the base model.
CUSTOM_ENTITIES == {"CLIENT", "ASSET", "BENEFICIARY", "LEGAL_CLAUSE"}
CustomModelLabels == {"CLIENT", "LEGAL_CLAUSE", "PERSON"}

Candidates(text, labels) ==
    {c \in [start : TokenStarts(text), end : TokenEnds(text), label : labels] :
        c.start < c.end}

\* doc.ents: spans of whole tokens, in text order, no two sharing a token.
EntSeqs(text, n, labels) ==
    {q \in UNION {[1..m -> Candidates(text, labels)] : m \in 0..n} :
        \A j \in 1..(Len(q) - 1) : q[j].end <= q[j + 1].start}

StatInputs ==
    UNION {{[text |-> t, ents |-> q] : q \in EntSeqs(t, MaxEnts, StatLabels)} : t \in Texts}


\* A recognizer that breaks the contract of doc.ents: one answer whose
\* offsets are any integers around the text.
FakeTexts == {TextTrustee, TextTrustWill}
FakeLabels == {"PERSON", "ORG"}
FakeInputs ==
    UNION {{[text |-> t, ents |-> <<[start |-> s, end |-> e, label |-> l]>>] :
               s \in 0..(Len(t) + 1), e \in 0..(Len(t) + 1), l \in FakeLabels} :
           t \in FakeTexts}

\* The calls two threads make at the same time, the custom model answering
\* with at most one entity.
ConcInputs ==
    {in \in StatInputs :
        /\ in.text \in {TextTrustee, TextTrustWill}
        /\ Len(in.ents) <= 1
        /\ \A j \in 1..Len(in.ents) : in.ents[j].label \in {"PERSON", "ORG"}}

ConcCustomLabels == {"CLIENT"}

----------------------------------------------------------------------------
(* extract_entities, one loop iteration at a time                          *)

\* Line 71: two spans overlap unless one ends where or before the other
\* starts.
OverlapsTouching(span, proc_span) ==
    ~(span[2] < proc_span[1] \/ span[1] > proc_span[2])

Overlaps(span, proc_span) ==
    ~(span[2] <= proc_span[1] \/ span[1] >= proc_span[2])

\* Lines 66-73.
HasOverlap(span, spans) == \E proc_span \in spans : Overlaps(span, proc_span)

\* Lines 31 and 32: the call's own list and set.  The parameter is what
\* the name was bound to before, which the assignment discards.
NewEntities(prev) == << >>

StaleProcessedSpans(prev) == prev

NewProcessedSpans(prev) == {}

\* Lines 47-52.
TypeOf(label) ==
    CASE label = "PERSON" -> "Name"
      [] label = "DATE" -> "Date"
      [] label = "MONEY" -> "MonetaryAmount"
      [] OTHER -> "none"

\* Lines 35-52: one iteration of the loop over doc.ents.
StatEntities(text, ents_list, ent) ==
    IF TypeOf(ent.label) = "none" THEN ents_list
    ELSE Append(ents_list,
                [entity |-> Slice(text, ent.start, ent.end), type |-> TypeOf(ent.label),
                 span |-> <<ent.start, ent.end>>, src |-> "stat"])

\* Lines 35-52: one element of doc.ents, on the pair (entities,
\* processed_spans).
StatBody(text, st, ent) ==
    LET span_id == <<ent.start, ent.end>>
    IN  IF span_id \in st.processed_spans
        THEN st
        ELSE [entities |-> StatEntities(text, st.entities, ent),
              processed_spans |-> st.processed_spans \cup {span_id}]

\* Line 77.
LexClaimForgotten(spans, span) == spans

LexClaim(spans, span) == spans \cup {span}

\* Line 76.
LexEntity(text, m) ==
    [entity |-> Slice(text, m.start, m.end), type |-> "LegalTerm",
     span |-> <<m.start, m.end>>, src |-> "lex"]

\* Lines 64-77: one match of one term.
LexBody(text, st, match) ==
    LET span == <<match.start, match.end>>
    IN  IF HasOverlap(span, st.processed_spans)
        THEN st
        ELSE [entities |-> Append(st.entities, LexEntity(text, match)),
              processed_spans |-> LexClaim(st.processed_spans, span)]

RECURSIVE StatLoop(_, _, _, _)
StatLoop(text, ents, j, st) ==
    IF j > Len(ents) THEN st
    ELSE StatLoop(text, ents, j + 1, StatBody(text, st, ents[j]))

RECURSIVE LexLoop(_, _, _, _)
LexLoop(text, matches, j, st) ==
    IF j > Len(matches) THEN st
    ELSE LexLoop(text, matches, j + 1, LexBody(text, st, matches[j]))

\* The whole of extract_entities, given what the pipeline answers for text.
extract_entities(text, ents) ==
    LexLoop(text, LexMatches(text), 1,
            StatLoop(text, ents, 1, [entities |-> << >>, processed_spans |-> {}])).entities

----------------------------------------------------------------------------
(* extract_custom_entities and the combination                             *)

RECURSIVE extract_custom_entities(_, _)
extract_custom_entities(text, ents) ==
    IF ents = << >> THEN << >>
    ELSE LET ent == Head(ents)
             rest == extract_custom_entities(text, Tail(ents))
         IN  IF ent.label \in CUSTOM_ENTITIES
             THEN <<[entity |-> Slice(text, ent.start, ent.end), type |-> ent.label,
                     span |-> <<ent.start, ent.end>>, src |-> "custom"]>> \o rest
             ELSE rest

\* Line 47 of combined_ner.py.
CombineCustomOnly(standard, custom) == custom

Combine(standard, custom) == standard \o custom

\* The whole of extract_all_entities, given what both pipelines answer and
\* what became of the custom model.
extract_all_entities(text, ents, model, model_ents) ==
    Combine(extract_entities(text, ents),
            IF model = "ok" THEN extract_custom_entities(text, model_ents) ELSE << >>)

\* What the caller sees: the dictionaries, without the model's bookkeeping.
Output(ents_list) ==
    [j \in 1..Len(ents_list) |-> [entity |-> ents_list[j].entity, type |-> ents_list[j].type]]

----------------------------------------------------------------------------
(* State: one call frame of extract_all_entities per thread                *)

VARIABLES
    pc,                 \* where the frame's call stands
    text,               \* the argument
    doc_ents,           \* doc.ents of nlp(text), ner.py line 28
    i,                  \* next element of doc.ents (1-based)
    lex_matches,        \* the matches the loops of lines 62-64 visit, in order
    k,                  \* next element of lex_matches (1-based)
    entities,           \* ner.py line 31
    processed_spans,    \* ner.py line 32
    standard_entities,  \* combined_ner.py line 30
    custom_model,       \* what became of the custom model: absent, load_error,
                        \* run_error or ok
    custom_ents,        \* doc.ents of the custom model
    custom_entities,    \* combined_ner.py lines 33 and 42
    all_entities        \* combined_ner.py line 47, the value returned

\* State of one NEREvaluator (src/src/evaluation.py) and of the calls made on
\* it.
VARIABLES
    test_data,          \* self.test_data, evaluation.py line 11
    results,            \* self.results, evaluation.py line 12
    epc,                \* where the evaluator's caller stands
    true_entities,      \* first argument of a call of evaluate_predictions
    pred_entities,      \* second argument of that call
    metrics,            \* what that call came to: a result or an exception
    case_no,            \* evaluate_model: next element of self.test_data (1-based)
    predictions,        \* evaluate_model: what prediction_function answered, per case
    all_results,        \* evaluate_model line 117
    final_results       \* evaluate_model: the value returned

\* The file system the evaluator reads and writes, and the calls of
\* load_test_dataset, save_test_dataset and print_results.
VARIABLES
    dirs,               \* the directories that exist, as paths below the working directory
    files,              \* the files that exist: path |-> content
    file_path,          \* argument of a call of load_test_dataset or save_test_dataset
    store_outcome,      \* what that call came to: None returned, or an exception
    stdout              \* what a call of print_results has printed, line by line

store_vars == <<dirs, files, file_path, store_outcome, stdout>>

evaluator_vars == <<test_data, results, epc, true_entities, pred_entities, metrics, case_no,
                    predictions, all_results, final_results, store_vars>>

ner_vars == <<pc, text, doc_ents, i, lex_matches, k, entities, processed_spans,
              standard_entities, custom_model, custom_ents, custom_entities, all_entities>>

vars == <<ner_vars, evaluator_vars>>

\* A dictionary with no key.
EmptyDict == [key \in {} |-> << >>]

\* NEREvaluator.__init__, and no call made yet.
InitEvaluator ==
    /\ test_data = << >>
    /\ results = EmptyDict
    /\ epc = "idle"
    /\ true_entities = << >>
    /\ pred_entities = << >>
    /\ metrics = EmptyDict
    /\ case_no = 1
    /\ predictions = << >>
    /\ all_results = EmptyDict
    /\ final_results = EmptyDict
    /\ dirs = {<< >>}
    /\ files = EmptyDict
    /\ file_path = << >>
    /\ store_outcome = EmptyDict
    /\ stdout = << >>

Init ==
    /\ InitEvaluator
    /\ pc = [f \in Frames |-> "idle"]
    /\ text = [f \in Frames |-> << >>]
    /\ doc_ents = [f \in Frames |-> << >>]
    /\ i = [f \in Frames |-> 1]
    /\ lex_matches = [f \in Frames |-> << >>]
    /\ k = [f \in Frames |-> 1]
    /\ entities = [f \in Frames |-> << >>]
    /\ processed_spans = [f \in Frames |-> {}]
    /\ standard_entities = [f \in Frames |-> << >>]
    /\ custom_model = [f \in Frames |-> "none"]
    /\ custom_ents = [f \in Frames |-> << >>]
    /\ custom_entities = [f \in Frames |-> << >>]
    /\ all_entities = [f \in Frames |-> << >>]

\* extract_all_entities(text, path) is entered and calls extract_entities,
\* which runs the pipeline and binds its list and set (ner.py lines 25-32).
Call(f, inputs) ==
    /\ pc[f] = "idle"
    /\ \E in \in inputs :
          /\ text' = [text EXCEPT ![f] = in.text]
          /\ doc_ents' = [doc_ents EXCEPT ![f] = in.ents]
    /\ entities' = [entities EXCEPT ![f] = NewEntities(entities[f])]
    /\ processed_spans' = [processed_spans EXCEPT ![f] = NewProcessedSpans(processed_spans[f])]
    /\ i' = [i EXCEPT ![f] = 1]
    /\ pc' = [pc EXCEPT ![f] = "stat"]
    /\ UNCHANGED <<lex_matches, k, standard_entities, custom_model, custom_ents, custom_entities,
                   all_entities>>
    /\ UNCHANGED evaluator_vars

\* ner.py lines 35-52: one element of doc.ents.
StatStep(f) ==
    /\ pc[f] = "stat"
    /\ i[f] <= Len(doc_ents[f])
    /\ LET st == StatBody(text[f],
                          [entities |-> entities[f], processed_spans |-> processed_spans[f]],
                          doc_ents[f][i[f]])
       IN  /\ entities' = [entities EXCEPT ![f] = st.entities]
           /\ processed_spans' = [processed_spans EXCEPT ![f] = st.processed_spans]
    /\ i' = [i EXCEPT ![f] = @ + 1]
    /\ UNCHANGED <<pc, text, doc_ents, lex_matches, k, standard_entities, custom_model, custom_ents,
                   custom_entities, all_entities>>
    /\ UNCHANGED evaluator_vars

\* The loop over doc.ents is exhausted; the loops of lines 62-64 start.
StatDone(f) ==
    /\ pc[f] = "stat"
    /\ i[f] > Len(doc_ents[f])
    /\ pc' = [pc EXCEPT ![f] = "lex"]
    /\ lex_matches' = [lex_matches EXCEPT ![f] = LexMatches(text[f])]
    /\ k' = [k EXCEPT ![f] = 1]
    /\ UNCHANGED <<text, doc_ents, i, entities, processed_spans, standard_entities,
                   custom_model, custom_ents, custom_entities, all_entities>>
    /\ UNCHANGED evaluator_vars

\* ner.py lines 64-77: one match of one term.
LexStep(f) ==
    /\ pc[f] = "lex"
    /\ k[f] <= Len(lex_matches[f])
    /\ LET st == LexBody(text[f],
                         [entities |-> entities[f], processed_spans |-> processed_spans[f]],
                         lex_matches[f][k[f]])
       IN  /\ entities' = [entities EXCEPT ![f] = st.entities]
           /\ processed_spans' = [processed_spans EXCEPT ![f] = st.processed_spans]
    /\ k' = [k EXCEPT ![f] = @ + 1]
    /\ UNCHANGED <<pc, text, doc_ents, i, lex_matches, standard_entities, custom_model,
                   custom_ents, custom_entities, all_entities>>
    /\ UNCHANGED evaluator_vars

\* ner.py line 79 returns to combined_ner.py line 30.
LexDone(f) ==
    /\ pc[f] = "lex"
    /\ k[f] > Len(lex_matches[f])
    /\ standard_entities' = [standard_entities EXCEPT ![f] = entities[f]]
    /\ pc' = [pc EXCEPT ![f] = "custom"]
    /\ UNCHANGED <<text, doc_ents, i, lex_matches, k, entities, processed_spans, custom_model,
                   custom_ents, custom_entities, all_entities>>
    /\ UNCHANGED evaluator_vars

\* combined_ner.py lines 33-49 with custom_entities left as bound on line 33.
Finish(f, outcome) ==
    /\ custom_model' = [custom_model EXCEPT ![f] = outcome]
    /\ custom_ents' = [custom_ents EXCEPT ![f] = << >>]
    /\ custom_entities' = [custom_entities EXCEPT ![f] = << >>]
    /\ all_entities' = [all_entities EXCEPT ![f] = Combine(standard_entities[f], << >>)]
    /\ pc' = [pc EXCEPT ![f] = "done"]
    /\ UNCHANGED <<text, doc_ents, i, lex_matches, k, entities, processed_spans, standard_entities>>
    /\ UNCHANGED evaluator_vars

\* Line 36: the path does not exist.
CustomAbsent(f) ==
    /\ pc[f] = "custom"
    /\ Finish(f, "absent")

\* Lines 37-44: spacy.load or the model's run raises, and the handler prints.
CustomFails(f) ==
    /\ pc[f] = "custom"
    /\ \E outcome \in {"load_error", "run_error"} : Finish(f, outcome)

\* Lines 36-49: the model loads and answers.
CustomOk(f, n, labels) ==
    /\ pc[f] = "custom"
    /\ \E q \in EntSeqs(text[f], n, labels) :
          /\ custom_ents' = [custom_ents EXCEPT ![f] = q]
          /\ custom_entities' = [custom_entities EXCEPT ![f] = extract_custom_entities(text[f], q)]
          /\ all_entities' = [all_entities EXCEPT ![f] =
                 Combine(standard_entities[f], extract_custom_entities(text[f], q))]
    /\ custom_model' = [custom_model EXCEPT ![f] = "ok"]
    /\ pc' = [pc EXCEPT ![f] = "done"]
    /\ UNCHANGED <<text, doc_ents, i, lex_matches, k, entities, processed_spans, standard_entities>>
    /\ UNCHANGED evaluator_vars

\* The caller has the list; the frame is free for the next call.  The two
\* names of extract_entities keep their last objects until lines 31 and 32
\* bind new ones.
Return(f) ==
    /\ pc[f] = "done"
    /\ pc' = [pc EXCEPT ![f] = "idle"]
    /\ text' = [text EXCEPT ![f] = << >>]
    /\ doc_ents' = [doc_ents EXCEPT ![f] = << >>]
    /\ i' = [i EXCEPT ![f] = 1]
    /\ lex_matches' = [lex_matches EXCEPT ![f] = << >>]
    /\ k' = [k EXCEPT ![f] = 1]
    /\ standard_entities' = [standard_entities EXCEPT ![f] = << >>]
    /\ custom_model' = [custom_model EXCEPT ![f] = "none"]
    /\ custom_ents' = [custom_ents EXCEPT ![f] = << >>]
    /\ custom_entities' = [custom_entities EXCEPT ![f] = << >>]
    /\ all_entities' = [all_entities EXCEPT ![f] = << >>]
    /\ UNCHANGED <<entities, processed_spans>>
    /\ UNCHANGED evaluator_vars

Steps(f, n, labels) ==
    \/ StatStep(f)
    \/ StatDone(f)
    \/ LexStep(f)
    \/ LexDone(f)
    \/ CustomAbsent(f)
    \/ CustomFails(f)
    \/ CustomOk(f, n, labels)
    \/ Return(f)

MainFrame == CHOOSE f \in Frames : \A g \in Frames : f <= g

\* One caller, the recognizers keeping to the contract of doc.ents.
Next == Call(MainFrame, StatInputs) \/ Steps(MainFrame, MaxCustomEnts, CustomModelLabels)
Spec == Init /\ [][Next]_vars

\* One caller, the statistical recognizer replaced by one that answers with
\* arbitrary offsets.
NextFake == Call(MainFrame, FakeInputs) \/ Steps(MainFrame, MaxCustomEnts, CustomModelLabels)
SpecFake == Init /\ [][NextFake]_vars

\* Two threads calling at the same time, their steps interleaved.
NextConc == \E f \in Frames : Call(f, ConcInputs) \/ Steps(f, 1, ConcCustomLabels)
SpecConc == Init /\ [][NextConc]_vars

----------------------------------------------------------------------------
(* NEREvaluator (src/src/evaluation.py): scoring of one pair of lists      *)

\* A metric value.  The code computes floats; the model keeps the exact
\* fraction <<numerator, denominator>> in lowest terms that the float stands
\* for, so that equalities such as 1/2 = 0.5 are decided exactly.
RECURSIVE GCD(_, _)
GCD(a, b) == IF b = 0 THEN a ELSE GCD(b, a % b)

Frac(n, d) == LET g == GCD(n, d) IN <<n \div g, d \div g>>

Zero == Frac(0, 1)

One == Frac(1, 1)

\* Python's a + b on two sequences given as <<kind, items>> records: defined
\* for two lists and for two tuples, a TypeError otherwise.
List(items) == [kind |-> "list", items |-> items]

Tuple(items) == [kind |-> "tuple", items |-> items]

None == [kind |-> "NoneType", items |-> << >>]

CanConcatenate(a, b) == a.kind = b.kind /\ a.kind \in {"list", "tuple"}

Range(seq) == {seq[n] : n \in DOMAIN seq}

\* What a call comes to: the value it returns, or the exception it raises.
Returned(v) == [raised |-> "", value |-> v]

Raised(exc) == [raised |-> exc, value |-> EmptyDict]

\* sklearn.metrics with average='binary', pos_label=1, as called on lines
\* 83-85 and 100-102: counts over two aligned 0/1 lists, and zero_division
\* as the answer when the denominator is 0.
CountOnes(y) == Cardinality({n \in DOMAIN y : y[n] = 1})

PredictedPositives(y_true, y_pred) == CountOnes(y_pred)

TruePositives(y_true, y_pred) ==
    Cardinality({n \in DOMAIN y_true : y_true[n] = 1 /\ y_pred[n] = 1})

PrfDivideOne(n, d, zero_division) == IF d = 0 THEN One ELSE Frac(n, d)

PrfDivide(n, d, zero_division) == IF d = 0 THEN zero_division ELSE Frac(n, d)

precision_score(y_true, y_pred, zero_division) ==
    PrfDivide(TruePositives(y_true, y_pred), CountOnes(y_pred), zero_division)

RecallAsPrecision(y_true, y_pred, zero_division) ==
    precision_score(y_true, y_pred, zero_division)

recall_score(y_true, y_pred, zero_division) ==
    PrfDivide(TruePositives(y_true, y_pred), CountOnes(y_true), zero_division)

F1Additive(y_true, y_pred, zero_division) ==
    LET p == precision_score(y_true, y_pred, zero_division)
        r == recall_score(y_true, y_pred, zero_division)
    IN  Frac(p[1] * r[2] + r[1] * p[2], p[2] * r[2])

f1_score(y_true, y_pred, zero_division) ==
    PrfDivide(2 * TruePositives(y_true, y_pred), CountOnes(y_true) + CountOnes(y_pred),
              zero_division)

\* Lines 82-86 and 99-103: the entry of one key.
Scores(y_true, y_pred) ==
    [precision |-> precision_score(y_true, y_pred, Zero),
     recall    |-> recall_score(y_true, y_pred, Zero),
     f1        |-> f1_score(y_true, y_pred, Zero)]

\* Line 60.
EntityTypesOfTruth(true_items, pred_items) == {e.type : e \in Range(true_items)}

entity_types(true_items, pred_items) == {e.type : e \in Range(true_items \o pred_items)}

\* Lines 69 and 91: the set the code calls all_entities.
AllEntities(true_items, pred_items) == {e.entity : e \in Range(true_items \o pred_items)}

\* The order in which Python iterates over a set: some order, the same for
\* y_true and y_pred since both are appended to in one loop.
RECURSIVE SetToSeq(_)
SetToSeq(S) ==
    IF S = {} THEN << >>
    ELSE LET x == CHOOSE y \in S : TRUE IN <<x>> \o SetToSeq(S \ {x})

\* Lines 73-76: true_exists / pred_exists for one type.
ExistsTextOnly(ents, entity, entity_type) == \E e \in Range(ents) : e.entity = entity

ExistsTypeOnly(ents, entity, entity_type) == \E e \in Range(ents) : e.type = entity_type

Exists(ents, entity, entity_type) ==
    \E e \in Range(ents) : e.entity = entity /\ e.type = entity_type

\* Lines 94-95: true_exists / pred_exists for "overall".
ExistsAnyType(ents, entity) == \E e \in Range(ents) : e.entity = entity

\* Lines 71-79: y_true (ents = true_entities) and y_pred (ents = pred_entities).
Indicators(ents, order, entity_type) ==
    [n \in DOMAIN order |-> IF Exists(ents, order[n], entity_type) THEN 1 ELSE 0]

\* Lines 93-97: overall_true and overall_pred.
OverallIndicators(ents, order) ==
    [n \in DOMAIN order |-> IF ExistsAnyType(ents, order[n]) THEN 1 ELSE 0]

\* Lines 63-86: results[entity_type].
TypeEntryPerMention(true_items, pred_items, entity_type) ==
    LET both  == true_items \o pred_items
        order == [n \in DOMAIN both |-> both[n].entity]
    IN  Scores(Indicators(true_items, order, entity_type),
               Indicators(pred_items, order, entity_type))

TypeEntry(true_items, pred_items, entity_type) ==
    LET order == SetToSeq(AllEntities(true_items, pred_items))
    IN  Scores(Indicators(true_items, order, entity_type),
               Indicators(pred_items, order, entity_type))

\* Line 81: the types that get an entry.
ScoredTypes(true_items, pred_items) ==
    {t \in entity_types(true_items, pred_items) :
        Len(SetToSeq(AllEntities(true_items, pred_items))) > 0}

\* An "overall" entry that counts (text, type) pairs instead of texts.
OverallByPair(true_items, pred_items) ==
    LET order == SetToSeq(Range(true_items \o pred_items))
    IN  Scores([n \in DOMAIN order |-> IF order[n] \in Range(true_items) THEN 1 ELSE 0],
               [n \in DOMAIN order |-> IF order[n] \in Range(pred_items) THEN 1 ELSE 0])

\* Lines 88-103: results["overall"].
Overall(true_items, pred_items) ==
    LET order == SetToSeq(AllEntities(true_items, pred_items))
    IN  Scores(OverallIndicators(true_items, order), OverallIndicators(pred_items, order))

\* Lines 46-105.  e["type"] on line 60 and e["entity"] on line 69 raise
\* KeyError on a dictionary without that key; the + of line 60 raises
\* TypeError unless both arguments are lists or both are tuples.
evaluate_predictions(true_arg, pred_arg) ==
    IF ~CanConcatenate(true_arg, pred_arg) THEN Raised("TypeError")
    ELSE LET t == true_arg.items
             p == pred_arg.items
         IN  IF \E e \in Range(t \o p) : "type" \notin DOMAIN e THEN Raised("KeyError")
             ELSE IF \E e \in Range(t \o p) : "entity" \notin DOMAIN e THEN Raised("KeyError")
             ELSE Returned([key \in ScoredTypes(t, p) \cup {"overall"} |->
                               IF key = "overall" THEN Overall(t, p)
                               ELSE TypeEntry(t, p, key)])

\* The longest list of entities passed to evaluate_predictions.
MaxEntities == 2

\* Entities of tests/test_ner_evaluation.py lines 43-50, and the first of
\* them under another type.
JohnSmithName == [entity |-> "John Smith", type |-> "Name"]

JohnSmithDate == [entity |-> "John Smith", type |-> "Date"]

March152024Date == [entity |-> "March 15, 2024", type |-> "Date"]

March15Date == [entity |-> "March 15", type |-> "Date"]

WellFormedEntities == {JohnSmithName, JohnSmithDate, March152024Date, March15Date}

\* Dictionaries without the key "type", without the key "entity".
MalformedEntities == {[entity |-> "John Smith"], [type |-> "Name"]}

\* The sequences over S of length at most n.
Lists(S, n) == UNION {[1..m -> S] : m \in 0..n}

\* What a caller may pass as one argument: a list of dictionaries, well
\* formed or not; a tuple of entities; None.
Arguments ==
    {List(l) : l \in Lists(WellFormedEntities \cup MalformedEntities, MaxEntities)}
        \cup {Tuple(l) : l \in Lists(WellFormedEntities, 1)}
        \cup {None}

\* evaluator.evaluate_predictions(a, b), called on a fresh or used evaluator.
ScoreOne(args) ==
    /\ epc = "idle"
    /\ \E a \in args, b \in args :
        /\ true_entities' = a
        /\ pred_entities' = b
        /\ metrics' = evaluate_predictions(a, b)
    /\ epc' = "scored"
    /\ UNCHANGED <<test_data, results, case_no, predictions, all_results, final_results>>
    /\ UNCHANGED store_vars
    /\ UNCHANGED ner_vars

\* The caller has taken the outcome of the call.
ScoreReturn ==
    /\ epc = "scored"
    /\ epc' = "idle"
    /\ true_entities' = << >>
    /\ pred_entities' = << >>
    /\ metrics' = EmptyDict
    /\ UNCHANGED <<test_data, results, case_no, predictions, all_results, final_results>>
    /\ UNCHANGED store_vars
    /\ UNCHANGED ner_vars

NextScore == ScoreOne(Arguments) \/ ScoreReturn

SpecScore == Init /\ [][NextScore]_vars

----------------------------------------------------------------------------
(* NEREvaluator: the dataset in memory and evaluate_model                  *)

\* The most cases a dataset holds.
MaxCases == 2

\* sum(values) / len(values), line 144.
Add(a, b) == Frac(a[1] * b[2] + b[1] * a[2], a[2] * b[2])

RECURSIVE Sum(_)
Sum(values) == IF values = << >> THEN Zero ELSE Add(Head(values), Sum(Tail(values)))

Mean(values) == LET s == Sum(values) IN Frac(s[1], s[2] * Len(values))

\* Lines 130-138: the scores of one case appended to the lists kept per key
\* and metric; a key seen for the first time starts from empty lists.
ScoreLists(agg, key) ==
    IF key \in DOMAIN agg THEN agg[key]
    ELSE [precision |-> << >>, recall |-> << >>, f1 |-> << >>]

AggregatePadded(agg, scores) ==
    [key \in DOMAIN agg \cup DOMAIN scores |->
        IF key \in DOMAIN scores
        THEN [m \in DOMAIN scores[key] |-> Append(ScoreLists(agg, key)[m], scores[key][m])]
        ELSE [m \in DOMAIN agg[key] |-> Append(agg[key][m], Zero)]]

Aggregate(agg, scores) ==
    [key \in DOMAIN agg \cup DOMAIN scores |->
        IF key \in DOMAIN scores
        THEN [m \in DOMAIN scores[key] |-> Append(ScoreLists(agg, key)[m], scores[key][m])]
        ELSE agg[key]]

\* Lines 141-146.
FinalResultsTypesOnly(agg) ==
    [key \in DOMAIN agg \ {"overall"} |-> [m \in DOMAIN agg[key] |-> Mean(agg[key][m])]]

FinalResultsWithOverall(agg) ==
    [key \in DOMAIN agg \cup {"overall"} |->
        IF key \in DOMAIN agg THEN [m \in DOMAIN agg[key] |-> Mean(agg[key][m])]
        ELSE [precision |-> Zero, recall |-> Zero, f1 |-> Zero]]

FinalResults(agg) ==
    [key \in DOMAIN agg |-> [m \in DOMAIN agg[key] |-> Mean(agg[key][m])]]

\* The cases a caller adds: one with the ground truth of
\* tests/test_ner_evaluation.py lines 43-46, one with one entity, one with
\* none.
TestCases ==
    {[text |-> "John Smith signed the agreement on March 15, 2024.",
      entities |-> List(<<JohnSmithName, March152024Date>>)],
     [text |-> "John Smith is the trustee.", entities |-> List(<<JohnSmithName>>)],
     [text |-> "", entities |-> List(<< >>)]}

\* What prediction_function returns for a text.
PredictionAnswers ==
    {List(<<JohnSmithName, March152024Date>>), List(<<JohnSmithName, March15Date>>),
     List(<<JohnSmithName>>), List(<<JohnSmithDate>>), List(<< >>),
     List(<<[entity |-> "John Smith"]>>)}

\* add_test_case, lines 39-44.
AddTestCaseReplacing(cases) ==
    /\ epc = "idle"
    /\ Len(test_data) < MaxCases
    /\ \E c \in cases : test_data' = <<c>>
    /\ UNCHANGED <<results, epc, true_entities, pred_entities, metrics, case_no, predictions,
                   all_results, final_results>>
    /\ UNCHANGED store_vars
    /\ UNCHANGED ner_vars

AddTestCase(cases) ==
    /\ epc = "idle"
    /\ Len(test_data) < MaxCases
    /\ \E c \in cases : test_data' = Append(test_data, c)
    /\ UNCHANGED <<results, epc, true_entities, pred_entities, metrics, case_no, predictions,
                   all_results, final_results>>
    /\ UNCHANGED store_vars
    /\ UNCHANGED ner_vars

\* evaluate_model is entered: line 117.
EvaluateModelCall ==
    /\ epc = "idle"
    /\ epc' = "evaluating"
    /\ all_results' = EmptyDict
    /\ case_no' = 1
    /\ predictions' = << >>
    /\ UNCHANGED <<test_data, results, true_entities, pred_entities, metrics, final_results>>
    /\ UNCHANGED store_vars
    /\ UNCHANGED ner_vars

\* One turn of the loop of line 119 in which prediction_function raises
\* (line 124): the exception leaves evaluate_model.
PredictionRaisesStoring ==
    /\ epc = "evaluating"
    /\ case_no <= Len(test_data)
    /\ epc' = "raised"
    /\ predictions' = Append(predictions, [text |-> test_data[case_no].text,
                                            answer |-> Raised("Exception")])
    /\ results' = FinalResults(all_results)
    /\ UNCHANGED <<test_data, true_entities, pred_entities, metrics, case_no,
                   all_results, final_results>>
    /\ UNCHANGED store_vars
    /\ UNCHANGED ner_vars

PredictionRaises ==
    /\ epc = "evaluating"
    /\ case_no <= Len(test_data)
    /\ epc' = "raised"
    /\ predictions' = Append(predictions, [text |-> test_data[case_no].text,
                                            answer |-> Raised("Exception")])
    /\ UNCHANGED <<test_data, results, true_entities, pred_entities, metrics, case_no,
                   all_results, final_results>>
    /\ UNCHANGED store_vars
    /\ UNCHANGED ner_vars

\* One turn of the loop, lines 120-127, up to the call of
\* evaluate_predictions.
ScoreCaseFirstTruth(answer) ==
    /\ epc = "evaluating"
    /\ case_no <= Len(test_data)
    /\ true_entities' = test_data[1].entities
    /\ pred_entities' = answer
    /\ metrics' = evaluate_predictions(test_data[1].entities, answer)
    /\ predictions' = Append(predictions, [text |-> test_data[case_no].text,
                                            answer |-> Returned(answer)])

ScoreCase(answer) ==
    /\ epc = "evaluating"
    /\ case_no <= Len(test_data)
    /\ true_entities' = test_data[case_no].entities
    /\ pred_entities' = answer
    /\ metrics' = evaluate_predictions(test_data[case_no].entities, answer)
    /\ predictions' = Append(predictions, [text |-> test_data[case_no].text,
                                            answer |-> Returned(answer)])

\* One turn of the loop in which evaluate_predictions raises (line 127).
ScoringRaises(answers) ==
    /\ \E a \in answers : ScoreCase(a)
    /\ metrics'.raised # ""
    /\ epc' = "raised"
    /\ UNCHANGED <<test_data, results, case_no, all_results, final_results>>
    /\ UNCHANGED store_vars
    /\ UNCHANGED ner_vars

\* One whole turn of the loop, lines 120-138.
CaseScored(answers) ==
    /\ \E a \in answers : ScoreCase(a)
    /\ metrics'.raised = ""
    /\ all_results' = Aggregate(all_results, metrics'.value)
    /\ case_no' = case_no + 1
    /\ UNCHANGED <<test_data, results, epc, final_results>>
    /\ UNCHANGED store_vars
    /\ UNCHANGED ner_vars

\* The loop is over: lines 141-149.
EvaluateModelReturn ==
    /\ epc = "evaluating"
    /\ case_no > Len(test_data)
    /\ final_results' = FinalResults(all_results)
    /\ results' = final_results'
    /\ epc' = "finished"
    /\ UNCHANGED <<test_data, true_entities, pred_entities, metrics, case_no, predictions,
                   all_results>>
    /\ UNCHANGED store_vars
    /\ UNCHANGED ner_vars

\* The caller has taken the outcome of evaluate_model; its locals are gone.
EvaluateModelDone ==
    /\ epc \in {"finished", "raised"}
    /\ epc' = "idle"
    /\ true_entities' = << >>
    /\ pred_entities' = << >>
    /\ metrics' = EmptyDict
    /\ case_no' = 1
    /\ predictions' = << >>
    /\ all_results' = EmptyDict
    /\ final_results' = EmptyDict
    /\ UNCHANGED <<test_data, results>>
    /\ UNCHANGED store_vars
    /\ UNCHANGED ner_vars

NextDataset ==
    \/ AddTestCase(TestCases)
    \/ EvaluateModelCall
    \/ PredictionRaises
    \/ ScoringRaises(PredictionAnswers)
    \/ CaseScored(PredictionAnswers)
    \/ EvaluateModelReturn
    \/ EvaluateModelDone

SpecDataset == Init /\ [][NextDataset]_vars

----------------------------------------------------------------------------
(* NEREvaluator: the dataset on disk (json.dump, json.load, the file       *)
(* system)                                                                 *)

\* A Python str is written as a TLA+ string where the model uses it as a key
\* or a label (StrAtoms), and as the sequence of its characters otherwise.
\* Spelling gives the characters of the former.
StrAtoms == {"text", "entities", "entity", "type", "Name"}

Spelling(atom) ==
    CASE atom = "text"     -> <<"t", "e", "x", "t">>
      [] atom = "entities" -> <<"e", "n", "t", "i", "t", "i", "e", "s">>
      [] atom = "entity"   -> <<"e", "n", "t", "i", "t", "y">>
      [] atom = "type"     -> <<"t", "y", "p", "e">>
      [] atom = "Name"     -> <<"N", "a", "m", "e">>

\* The str with these characters.
Str(chars) ==
    IF \E a \in StrAtoms : Spelling(a) = chars
    THEN CHOOSE a \in StrAtoms : Spelling(a) = chars
    ELSE chars

\* The character U+00E9 (e with acute accent), which is not ASCII, and the
\* four hexadecimal digits json writes for it.
EAcute == "U+00E9"

NonAscii == {EAcute}

HexDigits(c) == CASE c = EAcute -> <<"0", "0", "e", "9">>

\* json.dump, ensure_ascii=True: a quote and a backslash get a backslash, a
\* non-ASCII character becomes \uXXXX, any other character is kept.
EscapeCharRaw(c) == <<c>>

EscapeChar(c) ==
    CASE c = "\"" -> <<"\\", "\"">>
      [] c = "\\" -> <<"\\", "\\">>
      [] c \in NonAscii -> <<"\\", "u">> \o HexDigits(c)
      [] OTHER -> <<c>>

RECURSIVE EscapeChars(_)
EscapeChars(chars) ==
    IF chars = << >> THEN << >>
    ELSE EscapeChar(Head(chars)) \o EscapeChars(Tail(chars))

DumpStr(chars) == <<"\"">> \o EscapeChars(chars) \o <<"\"">>

\* indent=2: a newline and two spaces per level of nesting.
Spaces(n) == [j \in 1..n |-> " "]

Indent(depth) == <<"\n">> \o Spaces(2 * depth)

\* The members of an array or of an object, each on its own line.
RECURSIVE DumpMembers(_, _)
DumpMembers(members, depth) ==
    IF Len(members) = 1 THEN Head(members)
    ELSE Head(members) \o <<",">> \o Indent(depth) \o DumpMembers(Tail(members), depth)

DumpArray(members, depth) ==
    IF members = << >> THEN <<"[", "]">>
    ELSE <<"[">> \o Indent(depth + 1) \o DumpMembers(members, depth + 1)
             \o Indent(depth) \o <<"]">>

DumpObject(members, depth) ==
    IF members = << >> THEN <<"{", "}">>
    ELSE <<"{">> \o Indent(depth + 1) \o DumpMembers(members, depth + 1)
             \o Indent(depth) \o <<"}">>

DumpMember(key, dumped) == DumpStr(Spelling(key)) \o <<":", " ">> \o dumped

\* {"entity": ..., "type": ...}: the keys a dictionary has, in the order
\* they were inserted.
DumpEntity(e, depth) ==
    DumpObject([n \in 1..2 |->
                   IF n = 1 THEN DumpMember("entity", DumpStr(e.entity))
                   ELSE DumpMember("type", DumpStr(Spelling(e.type)))], depth)

\* A list and a tuple are both written as an array.
DumpEntities(arg, depth) ==
    DumpArray([n \in DOMAIN arg.items |-> DumpEntity(arg.items[n], depth + 1)], depth)

\* {"text": ..., "entities": [...]}, lines 41-44.
DumpCase(c, depth) ==
    DumpObject([n \in 1..2 |->
                   IF n = 1 THEN DumpMember("text", DumpStr(c.text))
                   ELSE DumpMember("entities", DumpEntities(c.entities, depth + 1))], depth)

\* json.dump(self.test_data, f, indent=2), line 37: the characters written.
json_dump(data) == DumpArray([n \in DOMAIN data |-> DumpCase(data[n], 1)], 0)

\* json.load: what a parse comes to, the value read and the position after
\* it, or a failure.
ParseFail == [ok |-> FALSE, value |-> << >>, next |-> 0]

Parsed(v, p) == [ok |-> TRUE, value |-> v, next |-> p]

IsSpace(c) == c \in {" ", "\n"}

RECURSIVE SkipSpace(_, _)
SkipSpace(s, p) == IF p <= Len(s) /\ IsSpace(s[p]) THEN SkipSpace(s, p + 1) ELSE p

\* The characters of a string up to its closing quote, escapes undone.
RECURSIVE ScanString(_, _, _)
ScanString(s, p, acc) ==
    IF p > Len(s) THEN ParseFail
    ELSE IF s[p] = "\"" THEN Parsed(acc, p + 1)
    ELSE IF s[p] # "\\" THEN ScanString(s, p + 1, Append(acc, s[p]))
    ELSE IF p + 1 > Len(s) THEN ParseFail
    ELSE IF s[p + 1] \in {"\"", "\\"} THEN ScanString(s, p + 2, Append(acc, s[p + 1]))
    ELSE IF s[p + 1] = "u" /\ p + 5 <= Len(s)
                /\ \E c \in NonAscii : HexDigits(c) = SubSeq(s, p + 2, p + 5)
         THEN ScanString(s, p + 6,
                         Append(acc, CHOOSE c \in NonAscii :
                                        HexDigits(c) = SubSeq(s, p + 2, p + 5)))
    ELSE ParseFail

RECURSIVE ParseValue(_, _)
RECURSIVE ParseItems(_, _, _)
RECURSIVE ParseMembers(_, _, _)

\* The value that starts at or after position p0: a string, an array (read
\* as a list) or an object (read as a dictionary).
ParseValue(s, p0) ==
    LET p == SkipSpace(s, p0)
    IN  IF p > Len(s) THEN ParseFail
        ELSE IF s[p] = "\""
             THEN LET r == ScanString(s, p + 1, << >>)
                  IN  IF r.ok THEN Parsed(Str(r.value), r.next) ELSE ParseFail
        ELSE IF s[p] = "["
             THEN LET q == SkipSpace(s, p + 1)
                  IN  IF q <= Len(s) /\ s[q] = "]" THEN Parsed(List(<< >>), q + 1)
                      ELSE ParseItems(s, q, << >>)
        ELSE IF s[p] = "{"
             THEN LET q == SkipSpace(s, p + 1)
                  IN  IF q <= Len(s) /\ s[q] = "}" THEN Parsed(EmptyDict, q + 1)
                      ELSE ParseMembers(s, q, EmptyDict)
        ELSE ParseFail

ParseItems(s, p, acc) ==
    LET r == ParseValue(s, p)
        q == SkipSpace(s, r.next)
    IN  IF ~r.ok \/ q > Len(s) THEN ParseFail
        ELSE IF s[q] = "," THEN ParseItems(s, q + 1, Append(acc, r.value))
        ELSE IF s[q] = "]" THEN Parsed(List(Append(acc, r.value)), q + 1)
        ELSE ParseFail

ParseMembers(s, p0, acc) ==
    LET p     == SkipSpace(s, p0)
        key   == IF p <= Len(s) /\ s[p] = "\"" THEN ScanString(s, p + 1, << >>) ELSE ParseFail
        colon == SkipSpace(s, key.next)
        r     == ParseValue(s, colon + 1)
        q     == SkipSpace(s, r.next)
    IN  IF ~key.ok \/ colon > Len(s) THEN ParseFail
        ELSE IF s[colon] # ":" THEN ParseFail
        ELSE IF ~r.ok \/ q > Len(s) THEN ParseFail
        ELSE IF s[q] = "," THEN ParseMembers(s, q + 1, (Str(key.value) :> r.value) @@ acc)
        ELSE IF s[q] = "}" THEN Parsed((Str(key.value) :> r.value) @@ acc, q + 1)
        ELSE ParseFail

\* json.load(f), line 31: the value of the whole content, or JSONDecodeError.
json_load(content) ==
    LET r == ParseValue(content, 1)
    IN  IF r.ok /\ SkipSpace(content, r.next) > Len(content) THEN Returned(r.value)
        ELSE Raised("JSONDecodeError")

\* A path relative to the working directory, as the sequence of its
\* components: "dataset.json" and "out/data/dataset.json".
PathBare == <<"dataset.json">>

PathNested == <<"out", "data", "dataset.json">>

Paths == {PathBare, PathNested}

\* os.path.dirname: the path without its last component, the empty string
\* (no component) for a bare file name.
dirname(path) == SubSeq(path, 1, Len(path) - 1)

\* The directory and all its parents.
Ancestors(name) == {SubSeq(name, 1, n) : n \in 1..Len(name)}

\* os.path.exists, line 29.
exists(path) == path \in DOMAIN files \/ path \in dirs

\* The cases a caller of the dataset store adds: one whose text and entity
\* have a non-ASCII character, a quote and a backslash, and one with no
\* entity.
CaseAccent ==
    [text |-> <<"J", "o", "s", EAcute, " ", "\"", "\\">>,
     entities |-> List(<<[entity |-> <<"J", "o", "s", EAcute>>, type |-> "Name"]>>)]

CaseNoEntity == [text |-> <<"n", "o">>, entities |-> List(<< >>)]

StoreCases == {CaseAccent, CaseNoEntity}

\* What prediction_function returns in the runs of the dataset store.
StoreAnswers == {List(<< >>), List(<<[entity |-> <<"J", "o", "s", EAcute>>, type |-> "Name"]>>), None}

\* load_test_dataset, lines 14-31.  A path that does not exist is skipped
\* without a word; open raises on a directory; json.load may raise.
LoadTestDataset(paths) ==
    /\ epc = "idle"
    /\ \E p \in paths :
        /\ file_path' = p
        /\ IF ~exists(p)
           THEN /\ test_data' = test_data
                /\ store_outcome' = Returned(None)
           ELSE IF p \notin DOMAIN files
           THEN /\ test_data' = test_data
                /\ store_outcome' = Raised("IsADirectoryError")
           ELSE LET loaded == json_load(files[p])
                IN  IF loaded.raised = ""
                    THEN /\ test_data' = loaded.value.items
                         /\ store_outcome' = Returned(None)
                    ELSE /\ test_data' = test_data
                         /\ store_outcome' = loaded
    /\ epc' = "loaded"
    /\ UNCHANGED <<dirs, files, stdout>>
    /\ UNCHANGED <<results, true_entities, pred_entities, metrics, case_no, predictions,
                   all_results, final_results>>
    /\ UNCHANGED ner_vars

\* save_test_dataset, lines 33-37.  os.makedirs raises FileNotFoundError on
\* the empty string and FileExistsError where a parent is a file; open(.., 'w')
\* replaces the content of the file.
SaveTestDataset(paths) ==
    /\ epc = "idle"
    /\ \E p \in paths :
        /\ file_path' = p
        /\ IF dirname(p) = << >>
           THEN /\ store_outcome' = Raised("FileNotFoundError")
                /\ UNCHANGED <<dirs, files>>
           ELSE IF Ancestors(dirname(p)) \cap DOMAIN files # {}
           THEN /\ store_outcome' = Raised("FileExistsError")
                /\ UNCHANGED <<dirs, files>>
           ELSE /\ dirs' = dirs \cup Ancestors(dirname(p))
                /\ files' = (p :> json_dump(test_data)) @@ files
                /\ store_outcome' = Returned(None)
    /\ epc' = "saved"
    /\ UNCHANGED stdout
    /\ UNCHANGED <<test_data, results, true_entities, pred_entities, metrics, case_no,
                   predictions, all_results, final_results>>
    /\ UNCHANGED ner_vars

\* print_results, lines 151-164: the lines printed.
NoResultsMessage == <<"No evaluation results available.">>

ResultLines(keys) ==
    [n \in DOMAIN keys |-> <<"Entity Type: ", keys[n], results[keys[n]]>>]

PrintResults ==
    /\ epc = "idle"
    /\ stdout' = IF results = EmptyDict THEN <<NoResultsMessage>>
                 ELSE <<<<"NER Evaluation Results">>>> \o ResultLines(SetToSeq(DOMAIN results))
    /\ epc' = "printed"
    /\ UNCHANGED <<dirs, files, file_path, store_outcome>>
    /\ UNCHANGED <<test_data, results, true_entities, pred_entities, metrics, case_no,
                   predictions, all_results, final_results>>
    /\ UNCHANGED ner_vars

\* The caller has taken the outcome of load_test_dataset, save_test_dataset
\* or print_results.
StoreReturn ==
    /\ epc \in {"loaded", "saved", "printed"}
    /\ epc' = "idle"
    /\ file_path' = << >>
    /\ store_outcome' = EmptyDict
    /\ stdout' = << >>
    /\ UNCHANGED <<dirs, files>>
    /\ UNCHANGED <<test_data, results, true_entities, pred_entities, metrics, case_no,
                   predictions, all_results, final_results>>
    /\ UNCHANGED ner_vars

NextStore ==
    \/ AddTestCase(StoreCases)
    \/ LoadTestDataset(Paths)
    \/ SaveTestDataset(Paths)
    \/ PrintResults
    \/ StoreReturn
    \/ EvaluateModelCall
    \/ PredictionRaises
    \/ ScoringRaises(StoreAnswers)
    \/ CaseScored(StoreAnswers)
    \/ EvaluateModelReturn
    \/ EvaluateModelDone

SpecStore == Init /\ [][NextStore]_vars

----------------------------------------------------------------------------
(* Vocabulary of the properties                                            *)

\* Overlap of two half-open spans, as the specification defines it.
SpansOverlap(a, b) == ~(a[2] <= b[1] \/ a[1] >= b[2])

\* Source priority: statistical first, domain-trained second, lexicon last.
Rank(src) == CASE src = "stat" -> 1 [] src = "custom" -> 2 [] src = "lex" -> 3

Indices(q) == 1..Len(q)

\* Every candidate the three sources produced for the frame's text.
AllCandidates(f) ==
    {[src |-> "stat", span |-> <<doc_ents[f][j].start, doc_ents[f][j].end>>, at |-> j] :
        j \in Indices(doc_ents[f])}
    \cup {[src |-> "custom", span |-> <<custom_ents[f][j].start, custom_ents[f][j].end>>, at |-> j] :
        j \in Indices(custom_ents[f])}
    \cup {[src |-> "lex", span |-> <<lex_matches[f][j].start, lex_matches[f][j].end>>,
           at |-> j] : j \in Indices(lex_matches[f])}

InOutput(f, c) ==
    \E j \in Indices(all_entities[f]) :
        all_entities[f][j].src = c.src /\ all_entities[f][j].span = c.span

\* The place of an output entity in its own source's answer.
ProducedAt(f, e) ==
    CHOOSE n \in 0..(Len(text[f]) + Len(legal_terms)) :
        \/ \E c \in AllCandidates(f) : c.src = e.src /\ c.span = e.span /\ c.at = n
        \/ n = 0 /\ ~\E c \in AllCandidates(f) : c.src = e.src /\ c.span = e.span

----------------------------------------------------------------------------
(* Properties                                                              *)

\* C1: the list extract_all_entities returns holds no two entities whose
\* spans overlap.
C1_NoOverlapInOutput ==
    \A f \in Frames :
        pc[f] = "done" =>
            \A a, b \in Indices(all_entities[f]) :
                a # b => ~SpansOverlap(all_entities[f][a].span, all_entities[f][b].span)

\* C2: of two overlapping candidates from different sources, the one from
\* the lower-priority source is absent from the output whenever the one from
\* the higher-priority source is in it.
C2_PriorityInvariant ==
    \A f \in Frames :
        pc[f] = "done" =>
            \A hi, lo \in AllCandidates(f) :
                (/\ Rank(hi.src) < Rank(lo.src)
                 /\ SpansOverlap(hi.span, lo.span)
                 /\ InOutput(f, hi))
                    => ~InOutput(f, lo)

\* C3: the output lists the statistical entities first, then the
\* domain-trained ones, then the lexicon ones, and each source's entities in
\* the order the source produced them.
C3_OutputOrder ==
    \A f \in Frames :
        pc[f] = "done" =>
            \A a, b \in Indices(all_entities[f]) :
                a < b =>
                    LET x == all_entities[f][a]
                        y == all_entities[f][b]
                    IN  /\ Rank(x.src) <= Rank(y.src)
                        /\ x.src = y.src => ProducedAt(f, x) < ProducedAt(f, y)

\* The candidate a step of the pass takes up, if the step takes one up.
StatCandidateStep(f) == pc[f] = "stat" /\ i'[f] = i[f] + 1
LexCandidateStep(f) == pc[f] = "lex" /\ k'[f] = k[f] + 1

StatSpan(f, j) == <<doc_ents[f][j].start, doc_ents[f][j].end>>
LexSpan(f, j) == <<lex_matches[f][j].start, lex_matches[f][j].end>>

\* What claim(span) promises of one step on the frame's registry: refused
\* with nothing changed when span overlaps a claimed span, and recorded
\* otherwise, the entity (when the step yields one) going to the end of the
\* list.
ClaimStep(f, span, yields) ==
    LET claimed == processed_spans[f]
    IN  IF \E p \in claimed : SpansOverlap(span, p)
        THEN /\ processed_spans'[f] = claimed
             /\ entities'[f] = entities[f]
        ELSE /\ processed_spans'[f] = claimed \cup {span}
             /\ IF yields
                THEN /\ Len(entities'[f]) = Len(entities[f]) + 1
                     /\ SubSeq(entities'[f], 1, Len(entities[f])) = entities[f]
                     /\ entities'[f][Len(entities'[f])].span = span
                ELSE entities'[f] = entities[f]

Unavailable == {"absent", "load_error", "run_error"}

\* C5: when the custom model is absent or fails to load or to run, the call
\* still returns, and returns exactly what extract_entities returns for the
\* text.
C5_SoftDegrade ==
    \A f \in Frames :
        (pc[f] = "done" /\ custom_model[f] \in Unavailable) =>
            /\ custom_entities[f] = << >>
            /\ all_entities[f] = standard_entities[f]
            /\ Output(all_entities[f]) = Output(extract_entities(text[f], doc_ents[f]))

\* C5 witness: a call ended after the custom model failed to load, with
\* entities from the other sources in its result.
C5_Witness ==
    \E f \in Frames :
        /\ pc[f] = "done"
        /\ custom_model[f] = "load_error"
        /\ Len(all_entities[f]) >= 2

WellFormed(t, span) == 0 <= span[1] /\ span[1] < span[2] /\ span[2] <= Len(t)

LexAccepted(f, j) ==
    \E n \in Indices(entities[f]) :
        entities[f][n].src = "lex" /\ entities[f][n].span = LexSpan(f, j)

\* The vocabulary index of the term a match is a match of.
TermOf(t, m) ==
    CHOOSE n \in Indices(legal_terms) :
        /\ Len(legal_terms[n]) = m.end - m.start
        /\ \A j \in Indices(legal_terms[n]) : Lower(t[m.start + j]) = legal_terms[n][j]

\* C7: a lexicon match is accepted exactly when it overlaps no span of the
\* statistical pass and no lexicon match accepted before it in the same
\* pass; accepted lexicon spans are claimed; matches are taken in vocabulary
\* order and, within a term, in position order.
C7_LexiconPass ==
    \A f \in Frames :
        pc[f] \in {"lex", "custom", "done"} =>
            LET ms == lex_matches[f]
                taken == IF pc[f] = "lex" THEN k[f] - 1 ELSE Len(ms)
            IN  /\ \A j \in Indices(ms) :
                      /\ j > taken => ~LexAccepted(f, j)
                      /\ j <= taken =>
                            (LexAccepted(f, j) <=>
                                /\ ~\E n \in Indices(doc_ents[f]) :
                                        SpansOverlap(LexSpan(f, j), StatSpan(f, n))
                                /\ ~\E j2 \in 1..(j - 1) :
                                        /\ LexAccepted(f, j2)
                                        /\ SpansOverlap(LexSpan(f, j), LexSpan(f, j2)))
                      /\ LexAccepted(f, j) => LexSpan(f, j) \in processed_spans[f]
                /\ \A j, j2 \in Indices(ms) :
                      j < j2 =>
                          \/ TermOf(text[f], ms[j]) < TermOf(text[f], ms[j2])
                          \/ /\ TermOf(text[f], ms[j]) = TermOf(text[f], ms[j2])
                             /\ ms[j].start < ms[j2].start
                /\ \A a, b \in Indices(entities[f]) :
                      (a < b /\ entities[f][a].src = "lex" /\ entities[f][b].src = "lex") =>
                          ProducedAt(f, entities[f][a]) < ProducedAt(f, entities[f][b])

\* C7 witness: the lexicon pass is over; one match was refused because a
\* statistical span covers it and a later-placed term, earlier in the
\* vocabulary, was accepted.
C7_Witness ==
    \E f \in Frames :
        /\ pc[f] = "custom"
        /\ \E j, j2 \in Indices(lex_matches[f]) :
              /\ LexAccepted(f, j)
              /\ ~LexAccepted(f, j2)
              /\ j < j2
              /\ LexSpan(f, j)[1] > LexSpan(f, j2)[1]

TrusteeOutput == <<[entity |-> TextTrustee, type |-> "LegalTerm"]>>

\* C8: for the text "trustee" with no statistical entity the only lexicon
\* candidate is trustee at (0, 7), and the result is exactly
\* [{entity: trustee, type: LegalTerm}].
C8_TrusteeScenario ==
    \A f \in Frames :
        (text[f] = TextTrustee /\ doc_ents[f] = << >>) =>
            /\ pc[f] \in {"lex", "custom", "done"} =>
                    lex_matches[f] = <<[start |-> 0, end |-> Len(TextTrustee)]>>
            /\ pc[f] \in {"custom", "done"} => Output(standard_entities[f]) = TrusteeOutput
            /\ (pc[f] = "done" /\ custom_entities[f] = << >>) =>
                    Output(all_entities[f]) = TrusteeOutput

\* C8 witness: the call on "trustee" with no statistical entity and no
\* custom model has returned.
C8_Witness ==
    \E f \in Frames :
        /\ pc[f] = "done"
        /\ text[f] = TextTrustee
        /\ doc_ents[f] = << >>
        /\ custom_model[f] = "absent"

\* The words of a text: its maximal runs of word characters, in lower case.
WordsOf(t) ==
    {[j \in 1..(e - s) |-> Lower(t[s + j])] : <<s, e>> \in
        {se \in TokenStarts(t) \X TokenEnds(t) :
            /\ se[1] < se[2]
            /\ \A j \in (se[1] + 1)..se[2] : IsWordChar(t[j])}}

VocabularyWords ==
    {legal_terms[n] : n \in Indices(legal_terms)} \cup {<<"p","o","w","e","r">>}

\* C9: when the statistical pipeline answers nothing, the text holds no
\* word of the vocabulary and the custom model answers nothing, the result
\* is the empty list; so it is for the empty text.
C9_NoCandidatesEmpty ==
    \A f \in Frames :
        (/\ pc[f] = "done"
         /\ doc_ents[f] = << >>
         /\ custom_ents[f] = << >>
         /\ WordsOf(text[f]) \cap VocabularyWords = {})
            => all_entities[f] = << >>

\* C9 witness: a call on the empty text has returned after the custom model
\* loaded and answered nothing.
C9_Witness ==
    \E f \in Frames :
        /\ pc[f] = "done"
        /\ text[f] = EmptyText
        /\ custom_model[f] = "ok"
        /\ all_entities[f] = << >>

\* C10: whatever other calls ran before or run at the same time, a call
\* returns what extract_all_entities yields for its own inputs alone, and
\* while it runs its claimed spans are spans of its own text's candidates.
C10_CallsIndependent ==
    \A f \in Frames :
        /\ pc[f] = "done" =>
              all_entities[f] =
                  extract_all_entities(text[f], doc_ents[f], custom_model[f], custom_ents[f])
        /\ pc[f] \in {"stat", "lex", "custom", "done"} =>
              \A span \in processed_spans[f] :
                  \E c \in AllCandidates(f) : c.span = span

\* C10 witness: one thread's call has returned entities while the other
\* thread is in the middle of its lexicon pass over a different text,
\* holding claimed spans of its own.
C10_Witness ==
    \E f, g \in Frames :
        /\ f # g
        /\ pc[f] = "done"
        /\ all_entities[f] # << >>
        /\ pc[g] = "lex"
        /\ k[g] > 1
        /\ processed_spans[g] # {}
        /\ text[f] # text[g]

----------------------------------------------------------------------------
(* Vocabulary of the properties of the evaluator                           *)

MetricNames == {"precision", "recall", "f1"}

\* A fraction between 0 and 1, both included.
InUnit(q) == 0 <= q[1] /\ q[1] <= q[2]

\* n / d, and 0 where d is 0.
Ratio(n, d) == IF d = 0 THEN Zero ELSE Frac(n, d)

\* 2pr / (p + r), and 0 where p and r are both 0.
HarmonicMean(p, r) ==
    IF p[1] = 0 /\ r[1] = 0 THEN Zero
    ELSE Frac(2 * p[1] * r[1], p[1] * r[2] + r[1] * p[2])

AllZero == [precision |-> Zero, recall |-> Zero, f1 |-> Zero]

AllOne == [precision |-> One, recall |-> One, f1 |-> One]

AllHalf == [precision |-> Frac(1, 2), recall |-> Frac(1, 2), f1 |-> Frac(1, 2)]

\* evaluate_predictions has been called and the variable metrics holds what
\* the call came to: called by a caller, or by the loop of evaluate_model.
ScoreOneOutcome ==
    \/ epc = "scored"
    \/ /\ epc \in {"evaluating", "finished", "raised"}
       /\ predictions # << >>
       /\ predictions[Len(predictions)].answer.raised = ""

\* The call was made on two lists of entities that have both fields.
WellFormedArgument(arg) ==
    /\ arg.kind = "list"
    /\ \A e \in Range(arg.items) : DOMAIN e = {"entity", "type"}

ScoredWellFormed ==
    /\ epc = "scored"
    /\ WellFormedArgument(true_entities)
    /\ WellFormedArgument(pred_entities)

\* The (text, type) pairs, the types and the texts of an argument.
PairsOf(arg) == Range(arg.items)

TypesOf(arg) == {e.type : e \in Range(arg.items)}

TextsOf(arg) == {e.entity : e \in Range(arg.items)}

TextsOfType(arg, t) == {e.entity : e \in {x \in Range(arg.items) : x.type = t}}

\* C11: every precision, recall and f1 that evaluate_predictions returns (per
\* type and "overall"), and every one that evaluate_model returns and stores,
\* lies within [0, 1].
C11_MetricBounds ==
    /\ (ScoreOneOutcome /\ metrics.raised = "") =>
            \A key \in DOMAIN metrics.value :
                \A m \in DOMAIN metrics.value[key] : InUnit(metrics.value[key][m])
    /\ \A key \in DOMAIN final_results :
            \A m \in DOMAIN final_results[key] : InUnit(final_results[key][m])
    /\ \A key \in DOMAIN results :
            \A m \in DOMAIN results[key] : InUnit(results[key][m])

\* evaluate_model has returned averages over two cases, one of them strictly
\* between 0 and 1 and one equal to 1, and the last case was scored.
C11_Witness ==
    /\ epc = "finished"
    /\ Len(test_data) = 2
    /\ metrics.raised = ""
    /\ \E key \in DOMAIN final_results :
            /\ 0 < final_results[key].f1[1]
            /\ final_results[key].f1[1] < final_results[key].f1[2]
    /\ \E key \in DOMAIN final_results : final_results[key].precision = One

\* C12: evaluate_predictions([], []) returns {"overall": {precision: 0,
\* recall: 0, f1: 0}} and nothing else; it raises nothing.
C12_EmptyInputs ==
    (epc = "scored" /\ true_entities = List(<< >>) /\ pred_entities = List(<< >>)) =>
        metrics = Returned([key \in {"overall"} |-> AllZero])

\* The call on two empty lists has been made and has returned.
C12_Witness ==
    /\ epc = "scored"
    /\ true_entities = List(<< >>)
    /\ pred_entities = List(<< >>)
    /\ metrics.raised = ""
    /\ DOMAIN metrics.value = {"overall"}

\* The entry the specification defines for type t: hits are the texts that
\* have type t in both lists.
ExpectedTypeEntry(t) ==
    LET true_t == TextsOfType(true_entities, t)
        pred_t == TextsOfType(pred_entities, t)
        hits   == Cardinality(pred_t \cap true_t)
        p      == Ratio(hits, Cardinality(pred_t))
        r      == Ratio(hits, Cardinality(true_t))
    IN  [precision |-> p, recall |-> r, f1 |-> HarmonicMean(p, r)]

\* C13: for each type t in ground truth or predictions, precision_t =
\* |PRED_t /\ TRUE_t| / |PRED_t|, recall_t = |PRED_t /\ TRUE_t| / |TRUE_t|
\* (0 on an empty denominator) and f1_t is their harmonic mean (0 if both are
\* 0), over the distinct texts of exactly that type.
C13_PerTypeMetrics ==
    ScoredWellFormed =>
        /\ metrics.raised = ""
        /\ \A t \in TypesOf(true_entities) \cup TypesOf(pred_entities) :
                /\ t \in DOMAIN metrics.value
                /\ metrics.value[t] = ExpectedTypeEntry(t)

\* A call where, for Date, one of two predicted texts is in the ground truth:
\* precision 1/2, recall 1, f1 2/3.
C13_Witness ==
    /\ ScoredWellFormed
    /\ "Date" \in DOMAIN metrics.value
    /\ Cardinality(TextsOfType(pred_entities, "Date")) = 2
    /\ Cardinality(TextsOfType(true_entities, "Date")) = 1
    /\ metrics.value["Date"] =
            [precision |-> Frac(1, 2), recall |-> One, f1 |-> Frac(2, 3)]

\* C14: ground truth [John Smith/Name, March 15, 2024/Date] against
\* predictions [John Smith/Name, March 15/Date] gives the keys Name, Date and
\* overall, with Name all 1, Date all 0 and overall all 0.5.
C14_TestScenario ==
    (/\ epc = "scored"
     /\ true_entities = List(<<JohnSmithName, March152024Date>>)
     /\ pred_entities = List(<<JohnSmithName, March15Date>>)) =>
        metrics = Returned([key \in {"Name", "Date", "overall"} |->
                               CASE key = "Name" -> AllOne
                                 [] key = "Date" -> AllZero
                                 [] key = "overall" -> AllHalf])

\* The call of the scenario has been made and three keys have come back.
C14_Witness ==
    /\ epc = "scored"
    /\ true_entities = List(<<JohnSmithName, March152024Date>>)
    /\ pred_entities = List(<<JohnSmithName, March15Date>>)
    /\ metrics.raised = ""
    /\ Cardinality(DOMAIN metrics.value) = 3

\* C15: when ground truth and predictions share no (text, type) pair, every
\* type that both lists contain scores precision = recall = f1 = 0.
C15_DisjointScoreZero ==
    (ScoredWellFormed /\ PairsOf(true_entities) \cap PairsOf(pred_entities) = {}) =>
        /\ metrics.raised = ""
        /\ \A t \in TypesOf(true_entities) \cap TypesOf(pred_entities) :
                /\ t \in DOMAIN metrics.value
                /\ metrics.value[t] = AllZero

\* Two lists without a common pair: two ground-truth texts and one predicted
\* text of one type, which scores 0.
C15_Witness ==
    /\ ScoredWellFormed
    /\ PairsOf(true_entities) \cap PairsOf(pred_entities) = {}
    /\ \E t \in TypesOf(true_entities) \cap TypesOf(pred_entities) :
            /\ Cardinality(TextsOfType(true_entities, t)) = 2
            /\ Cardinality(TextsOfType(pred_entities, t)) = 1
            /\ metrics.value[t] = AllZero

\* The "overall" entry the specification defines: hits are the texts that
\* occur in both lists, whatever their types.
ExpectedOverall ==
    LET hits == Cardinality(TextsOf(pred_entities) \cap TextsOf(true_entities))
        p    == Ratio(hits, Cardinality(TextsOf(pred_entities)))
        r    == Ratio(hits, Cardinality(TextsOf(true_entities)))
    IN  [precision |-> p, recall |-> r, f1 |-> HarmonicMean(p, r)]

\* C16: "overall" is computed from text membership only, whatever the types;
\* and when the lists share texts but no (text, type) pair, every per-type
\* entry is all 0 while overall precision and recall count the shared texts.
C16_OverallIgnoresType ==
    ScoredWellFormed =>
        /\ metrics.raised = ""
        /\ metrics.value["overall"] = ExpectedOverall
        /\ (/\ PairsOf(true_entities) \cap PairsOf(pred_entities) = {}
            /\ TextsOf(true_entities) \cap TextsOf(pred_entities) # {}) =>
                /\ \A key \in DOMAIN metrics.value \ {"overall"} : metrics.value[key] = AllZero
                /\ metrics.value["overall"].precision[1] > 0
                /\ metrics.value["overall"].recall[1] > 0

\* John Smith is a Name in the ground truth and a Date in the predictions:
\* Name and Date score 0, overall scores 1.
C16_Witness ==
    /\ epc = "scored"
    /\ true_entities = List(<<JohnSmithName>>)
    /\ pred_entities = List(<<JohnSmithDate>>)
    /\ metrics.raised = ""
    /\ metrics.value["Name"] = AllZero
    /\ metrics.value["Date"] = AllZero
    /\ metrics.value["overall"] = AllOne

\* C17: the keys of a result are exactly the types found in ground truth or
\* predictions plus "overall", and every entry has exactly the fields
\* precision, recall and f1.
C17_ResultShape ==
    (epc = "scored" /\ metrics.raised = "") =>
        /\ DOMAIN metrics.value =
                TypesOf(true_entities) \cup TypesOf(pred_entities) \cup {"overall"}
        /\ \A key \in DOMAIN metrics.value : DOMAIN metrics.value[key] = MetricNames

\* A result with a key for a type that only the predictions contain.
C17_Witness ==
    /\ ScoredWellFormed
    /\ metrics.raised = ""
    /\ TypesOf(true_entities) = {"Name"}
    /\ TypesOf(pred_entities) = {"Date"}
    /\ DOMAIN metrics.value = {"Name", "Date", "overall"}

\* What evaluate_predictions returns for case n of the dataset and for the
\* answer prediction_function gave for it.
CaseResult(n) ==
    evaluate_predictions(test_data[n].entities, predictions[n].answer.value).value

\* The cases whose result has the key.
CasesWith(key) == {n \in 1..Len(test_data) : key \in DOMAIN CaseResult(n)}

\* The arithmetic mean of metric m of the key over a set of cases.
RECURSIVE SumOver(_, _, _)
SumOver(cases, key, m) ==
    IF cases = {} THEN Zero
    ELSE LET n == CHOOSE x \in cases : TRUE
         IN  Add(CaseResult(n)[key][m], SumOver(cases \ {n}, key, m))

MeanOver(cases, key, m) ==
    LET s == SumOver(cases, key, m) IN Frac(s[1], s[2] * Cardinality(cases))

\* C18: evaluate_model returns exactly the keys found in some case's result,
\* each metric being the mean over the cases whose result has the key; a
\* case without the key adds no term.
C18_MeanOverCasesWithKey ==
    epc = "finished" =>
        /\ DOMAIN final_results = UNION {DOMAIN CaseResult(n) : n \in 1..Len(test_data)}
        /\ \A key \in DOMAIN final_results :
                \A m \in MetricNames :
                    final_results[key][m] = MeanOver(CasesWith(key), key, m)

\* Two cases were evaluated; a type is in the result of one of them only and
\* its average is that case's value, 1.
C18_Witness ==
    /\ epc = "finished"
    /\ Len(test_data) = 2
    /\ \E key \in DOMAIN final_results :
            /\ Cardinality(CasesWith(key)) = 1
            /\ final_results[key] = AllOne

\* C19: on a dataset of at least one case, the result of evaluate_model has
\* the key "overall" with precision, recall and f1, each the mean over all
\* cases of the dataset.
C19_OverallAlwaysAveraged ==
    (epc = "finished" /\ Len(test_data) >= 1) =>
        /\ "overall" \in DOMAIN final_results
        /\ DOMAIN final_results["overall"] = MetricNames
        /\ \A m \in MetricNames :
                final_results["overall"][m] = MeanOver(1..Len(test_data), "overall", m)

\* Two cases were evaluated, with overall precision 1/2 and 1: the average
\* returned is 3/4.
C19_Witness ==
    /\ epc = "finished"
    /\ Len(test_data) = 2
    /\ {CaseResult(n)["overall"].precision : n \in 1..2} = {Frac(1, 2), One}
    /\ final_results["overall"].precision = Frac(3, 4)

\* An argument the specification calls invalid: not a list, or a list with
\* an entity that lacks its type or its entity field.
InvalidArgument(arg) == ~WellFormedArgument(arg)

\* C20: a call of evaluate_predictions with an invalid argument (a non-list,
\* or an entity without type or entity field) ends with an error and returns
\* no metrics.
C20_InvalidInputFailsFast ==
    (epc = "scored" /\ (InvalidArgument(true_entities) \/ InvalidArgument(pred_entities))) =>
        /\ metrics.raised # ""
        /\ metrics.value = EmptyDict

----------------------------------------------------------------------------
(* Vocabulary of the properties of the dataset store                       *)

\* The call of load_test_dataset or save_test_dataset has ended, with an
\* exception or without.
StoreCallFailed == store_outcome.raised # ""

\* C21: load_test_dataset on a path where nothing exists ends with an error
\* that reaches the caller.
C21_LoadAbsentFails ==
    (epc = "loaded" /\ ~exists(file_path)) => StoreCallFailed

\* C22: save_test_dataset succeeds on every path, a bare file name included;
\* afterwards every parent directory exists and the file holds exactly the
\* dataset in memory.
C22_SaveAlwaysSucceeds ==
    epc = "saved" =>
        /\ ~StoreCallFailed
        /\ Ancestors(dirname(file_path)) \subseteq dirs
        /\ file_path \in DOMAIN files
        /\ files[file_path] = json_dump(test_data)

\* A step of add_test_case: the only call that starts and ends with the
\* caller idle.
AddCaseStep == epc = "idle" /\ epc' = "idle" /\ vars' # vars

\* C23: add_test_case appends one case at the end, keeps the earlier cases
\* and leaves the disk alone; the disk changes only in save_test_dataset and
\* the dataset in memory only in add_test_case and load_test_dataset.
C23_AddCaseFrame ==
    [][/\ AddCaseStep =>
            /\ Len(test_data') = Len(test_data) + 1
            /\ SubSeq(test_data', 1, Len(test_data)) = test_data
            /\ test_data'[Len(test_data')] \in StoreCases
            /\ files' = files /\ dirs' = dirs
       /\ (files' # files \/ dirs' # dirs) => epc' = "saved"
       /\ test_data' # test_data => (AddCaseStep \/ epc' = "loaded")]_vars

\* A case was added after the dataset was saved: memory holds two cases, the
\* file still the first one only.
C23_Witness ==
    /\ epc = "idle"
    /\ Len(test_data) = 2
    /\ PathNested \in DOMAIN files
    /\ files[PathNested] = json_dump(SubSeq(test_data, 1, 1))

\* C24: what save_test_dataset writes is read back by load_test_dataset as
\* the dataset that was saved: same cases, texts and entities, in the same
\* order, non-ASCII text and empty entity lists included.
C24_RoundTrip ==
    /\ (epc = "saved" /\ ~StoreCallFailed) =>
            json_load(files[file_path]) = Returned(List(test_data))
    /\ (epc = "loaded" /\ file_path \in DOMAIN files) =>
            /\ ~StoreCallFailed
            /\ Returned(List(test_data)) = json_load(files[file_path])
    /\ \A p \in DOMAIN files : json_load(files[p]).raised = ""

\* A dataset with a non-ASCII text and with an empty entity list has been
\* saved and loaded again.
C24_Witness ==
    /\ epc = "loaded"
    /\ file_path \in DOMAIN files
    /\ files[file_path] = json_dump(<<CaseAccent, CaseNoEntity>>)
    /\ test_data = <<CaseAccent, CaseNoEntity>>

----------------------------------------------------------------------------
(* Further properties of the merge and of the evaluator                    *)

\* C25: when extract_entities has returned, every lexicon match that is not
\* in its output overlaps the span of an entity that is: a statistical match
\* with an unmapped label, which yields no entity, blocks nothing.
C25_DroppedOnlyForOutputEntity ==
    \A f \in Frames :
        pc[f] = "custom" =>
            \A j \in Indices(lex_matches[f]) :
                (~\E n \in Indices(standard_entities[f]) :
                      /\ standard_entities[f][n].src = "lex"
                      /\ standard_entities[f][n].span = LexSpan(f, j))
                    => \E n \in Indices(standard_entities[f]) :
                          SpansOverlap(LexSpan(f, j), standard_entities[f][n].span)

\* The lists of entities that hold the same (text, type) pairs as arg: arg
\* with entities repeated, dropped where repeated, or in another order.
SamePairs(arg) ==
    {a \in Arguments : WellFormedArgument(a) /\ PairsOf(a) = PairsOf(arg)}

\* C26: the result of evaluate_predictions depends only on the sets of
\* (text, type) pairs of its arguments: repeating entities or reordering
\* either list changes no metric of any key.
C26_SetSemantics ==
    ScoredWellFormed =>
        \A a \in SamePairs(true_entities) :
            \A b \in SamePairs(pred_entities) : evaluate_predictions(a, b) = metrics

\* A call whose first list repeats one entity and whose second holds two
\* different ones, so that a shorter and a reordered list have the same pairs.
C26_Witness ==
    /\ ScoredWellFormed
    /\ Len(true_entities.items) = 2
    /\ Cardinality(PairsOf(true_entities)) = 1
    /\ Cardinality(PairsOf(pred_entities)) = 2
    /\ Cardinality(SamePairs(true_entities)) >= 2
    /\ Cardinality(SamePairs(pred_entities)) >= 2
    /\ metrics.raised = ""

\* C27: evaluate_predictions(B, A) has the keys of evaluate_predictions(A, B),
\* with precision and recall exchanged and f1 the same.
C27_SwapArguments ==
    ScoredWellFormed =>
        LET swapped == evaluate_predictions(pred_entities, true_entities)
        IN  /\ metrics.raised = ""
            /\ swapped.raised = ""
            /\ DOMAIN swapped.value = DOMAIN metrics.value
            /\ \A key \in DOMAIN metrics.value :
                    /\ metrics.value[key].precision = swapped.value[key].recall
                    /\ metrics.value[key].recall = swapped.value[key].precision
                    /\ metrics.value[key].f1 = swapped.value[key].f1

\* A call in which some key has a precision different from its recall, both
\* above 0.
C27_Witness ==
    /\ ScoredWellFormed
    /\ metrics.raised = ""
    /\ \E key \in DOMAIN metrics.value :
            /\ metrics.value[key].precision # metrics.value[key].recall
            /\ metrics.value[key].precision[1] > 0
            /\ metrics.value[key].recall[1] > 0

\* C28: while evaluate_model runs, and when it ends with an exception of
\* prediction_function or of evaluate_predictions, self.test_data and
\* self.results stay as they were at the call; self.results changes only
\* when evaluate_model returns, to the complete result.
C28_FailureLeavesState ==
    [][/\ (epc = "evaluating" \/ epc' \in {"evaluating", "raised", "finished"}) =>
            test_data' = test_data
       /\ epc' \in {"evaluating", "raised"} => results' = results
       /\ results' # results =>
            /\ epc' = "finished"
            /\ case_no > Len(test_data)
            /\ results' = final_results']_vars

\* evaluate_model has raised after scoring at least one case, on an
\* evaluator that holds the result of an earlier evaluation: the partial
\* aggregate differs from the stored result.
C28_Witness ==
    /\ epc = "raised"
    /\ results # EmptyDict
    /\ all_results # EmptyDict
    /\ results # FinalResults(all_results)

\* C29: evaluate_model on an empty dataset calls prediction_function not
\* once and returns and stores the empty mapping; a load from an absent path
\* leaves the dataset as it is; with empty results print_results prints that
\* no evaluation results are available.
C29_EmptyDataset ==
    /\ [](/\ (epc = "finished" /\ test_data = << >>) =>
                /\ predictions = << >>
                /\ final_results = EmptyDict
                /\ results = EmptyDict
          /\ (epc = "printed" /\ results = EmptyDict) => stdout = <<NoResultsMessage>>
          /\ (epc = "printed" /\ results # EmptyDict) => stdout # <<NoResultsMessage>>)
    /\ [][(epc' = "loaded" /\ file_path' \notin DOMAIN files /\ file_path' \notin dirs) =>
                test_data' = test_data]_vars

\* evaluate_model has returned on an empty dataset.
C29_Witness ==
    /\ epc = "finished"
    /\ test_data = << >>
    /\ predictions = << >>
    /\ results = EmptyDict

\* The values evaluate_model has collected for a key and a metric when the
\* first n cases are scored each against its own ground truth; scored[n] is
\* the result of case n.
RECURSIVE ValuesUpTo(_, _, _, _)
ValuesUpTo(scored, n, key, m) ==
    IF n = 0 THEN << >>
    ELSE IF key \in DOMAIN scored[n]
         THEN Append(ValuesUpTo(scored, n - 1, key, m), scored[n][key][m])
         ELSE ValuesUpTo(scored, n - 1, key, m)

\* C30: evaluate_model calls prediction_function once per case, with the
\* text of that case, in the order of the dataset, and scores the answer
\* against the ground truth of that same case only.
C30_OneCallPerCaseInOrder ==
    epc \in {"evaluating", "finished", "raised"} =>
        /\ Len(predictions) <= Len(test_data)
        /\ \A n \in DOMAIN predictions : predictions[n].text = test_data[n].text
        /\ epc = "evaluating" => Len(predictions) = case_no - 1
        /\ epc = "finished" => Len(predictions) = Len(test_data)
        /\ epc = "raised" => Len(predictions) = case_no
        /\ LET scored == [n \in 1..(case_no - 1) |-> CaseResult(n)]
               last == Len(predictions)
           IN  /\ ScoreOneOutcome =>
                    /\ true_entities = test_data[last].entities
                    /\ pred_entities = predictions[last].answer.value
                    /\ IF last \in DOMAIN scored
                       THEN metrics = Returned(scored[last])
                       ELSE metrics = evaluate_predictions(true_entities, pred_entities)
               /\ DOMAIN all_results = UNION {DOMAIN scored[n] : n \in DOMAIN scored}
               /\ \A key \in DOMAIN all_results :
                    \A m \in MetricNames :
                        all_results[key][m] = ValuesUpTo(scored, case_no - 1, key, m)

\* Two cases with different texts were evaluated; the answer for the second
\* scores differently against the ground truth of the first.
C30_Witness ==
    /\ epc = "finished"
    /\ Len(test_data) = 2
    /\ test_data[1].text # test_data[2].text
    /\ evaluate_predictions(test_data[1].entities, pred_entities) # metrics

====
